---- MODULE Spec2Model ----
(***************************************************************************)
(* A model of the HR assistant backend (rag-service): the ToolRegistry     *)
(* handlers of app/tools.py over the relational store, the document        *)
(* ingestion task of app/celery_app.py, the tool dispatch of               *)
(* LLMService.chat_completion (app/llm_service.py) and the PII detector    *)
(* of app/pii_detection.py.                                                *)
(*                                                                         *)
(* A Python dict is a TLA+ record wrapped as [kind |-> "dict", value |-> r]*)
(* so that "the mapping contains an `error` key" is                        *)
(* "error" \in DOMAIN r.value; a Python list is [kind |-> "list", ...];    *)
(* an exception that leaves the handler is [kind |-> "raise", ...].        *)
(* A nullable column holds << >> (None) or <<v>>, except identifiers,      *)
(* where None is the string NULL.                                          *)
(***************************************************************************)
EXTENDS Integers, Sequences, FiniteSets, TLC

\* ------------------------------------------------------------------ bounds

\* The most leave_requests rows the store holds in a run of the model.
MaxLeaves == 2

\* ------------------------------------------------------- the relational store

NULL == "NULL"

\* Well-formed identifier strings; any other string makes uuid.UUID raise.
TenantUUIDs == {"T1", "T2"}
EmployeeUUIDs == {"e1", "e2", "e3", "e4", "e9"}
\* The i-th call of uuid.uuid4() in create_leave_request.
LeaveUUIDs == <<"L1", "L2", "L3", "L4">>
BadUUID == "not-a-uuid"

\* The employees table. No handler writes it. e9 is a well-formed id with no row.
\* e2 (tenant T1) reports to e3 (tenant T2) and e3 reports to e2: a cycle of
\* reporting_manager_id that crosses tenants. e4 is inactive.
Employee ==
  [ e1 |-> [id |-> "e1", tenant_id |-> "T1", role |-> "employee", is_active |-> TRUE,
            first_name |-> "alice", last_name |-> "ng", email |-> "alice@hr.io",
            department |-> "eng",
            reporting_manager_id |-> "e2"],
    e2 |-> [id |-> "e2", tenant_id |-> "T1", role |-> "manager", is_active |-> TRUE,
            first_name |-> "bob", last_name |-> "ali", email |-> "bob@hr.io",
            department |-> "eng",
            reporting_manager_id |-> "e3"],
    e3 |-> [id |-> "e3", tenant_id |-> "T2", role |-> "hr", is_active |-> TRUE,
            first_name |-> "alina", last_name |-> "roy", email |-> "roy@hr.io",
            department |-> "ops",
            reporting_manager_id |-> "e2"],
    e4 |-> [id |-> "e4", tenant_id |-> "T1", role |-> "employee", is_active |-> FALSE,
            first_name |-> "dan", last_name |-> "kim", email |-> "dan@hr.io",
            department |-> "eng",
            reporting_manager_id |-> "e2"] ]


\* uuid.UUID(s): <<uuid>> when s is well formed, << >> when it raises ValueError.
UUID(s) == IF s = BadUUID THEN << >> ELSE <<s>>

\* datetime.fromisoformat(s.replace("Z", "+00:00")): the day number of the date, or
\* << >> when it raises ValueError.
fromisoformat(s) ==
  CASE s = "2024-01-01" -> <<1>>
    [] s = "2024-01-03" -> <<3>>
    [] s = "2024-01-15" -> <<15>>
    [] OTHER -> << >>

VARIABLES
  leaves,    \* the committed leave_requests table, in creation order
  staged,    \* the shared session's uncommitted changes (rows added or modified)
  now,       \* the latest datetime.utcnow() reading written to the store: a reading
             \* that is rolled back is seen by nobody and does not advance it
  call,      \* the last handler call: its name and arguments
  result,    \* what that call returned (or raised)
  docStatus,   \* the committed ingestion_status of document D1
  chunkEmb,    \* the committed embedding_id of each chunk of D1, in chunk_index order
  vsWrites,    \* the calls of RAGService.ingest_document_chunks made so far
  embedCalls,  \* the number of llm_service.get_embedding calls made so far
  sessions,    \* the database sessions opened and closed so far
  runs,        \* the number of ingest_document_task runs started so far
  task,        \* each run of ingest_document_task: where it is, and its locals
  chat,        \* the call of LLMService.chat_completion: where it is, and its locals
  pii,         \* pii_detection: PRESIDIO_AVAILABLE, the flag, and the module's engines
  managerOf,   \* employees.reporting_manager_id, by employee id
  approving    \* the approve_leave calls in progress, each with a session of its own

\* The employees table: the rows above with the reporting lines as they are now.
EmployeeRows ==
  {[Employee[k] EXCEPT !.reporting_manager_id = managerOf[k]] : k \in DOMAIN Employee}

\* The reporting lines of the rows above.
ReportingLines == [k \in DOMAIN Employee |-> Employee[k].reporting_manager_id]

toolVars == <<leaves, staged, now, call, result>>
ingestVars == <<docStatus, chunkEmb, vsWrites, embedCalls, sessions, runs, task>>
serviceVars == <<chat, pii>>
vars == <<leaves, staged, now, call, result,
          docStatus, chunkEmb, vsWrites, embedCalls, sessions, runs, task, chat, pii,
          managerOf, approving>>

\* --------------------------------------------------------------- results

Dict(r) == [kind |-> "dict", value |-> r]
List(xs) == [kind |-> "list", value |-> xs]
Raise(e) == [kind |-> "raise", value |-> e]
\* return {"error": str(e)} and the handlers' own {"error": "..."} returns.
ErrorDict(msg) == Dict([error |-> msg])

\* str(e) of the exceptions the handlers catch.
BadUUIDError == "badly formed hexadecimal UUID string"
BadDateError == "Invalid isoformat string"
StoreError == "OperationalError"
NameErrorMsg == "name 'DocumentChunk' is not defined"

\* ------------------------------------------------------------ the session

RECURSIVE Upsert(_, _)
\* A flushed row replaces the committed row of the same id, or is appended.
Upsert(tbl, row) ==
  IF tbl = << >> THEN <<row>>
  ELSE IF Head(tbl).id = row.id THEN <<row>> \o Tail(tbl)
  ELSE <<Head(tbl)>> \o Upsert(Tail(tbl), row)

RECURSIVE Flush(_, _)
\* The table after the session's staged rows are written, in staging order.
Flush(tbl, st) ==
  IF st = << >> THEN tbl ELSE Flush(Upsert(tbl, Head(st)), Tail(st))

\* What a query through the session sees (autoflush): committed rows and staged ones.
Rows(tbl, st) == {Flush(tbl, st)[i] : i \in 1..Len(Flush(tbl, st))}

\* ----------------------------------------------------- get_leave_balance

default_entitlement == 12

RECURSIVE SumSpans(_)
SumSpans(S) ==
  IF S = {} THEN 0
  ELSE LET lr == CHOOSE x \in S : TRUE
       IN ((lr.to_date - lr.from_date) + 1) + SumSpans(S \ {lr})

RECURSIVE SumSpansExclusive(_)
\* The spans summed without the + 1 that makes them inclusive.
SumSpansExclusive(S) ==
  IF S = {} THEN 0
  ELSE LET lr == CHOOSE x \in S : TRUE
       IN (lr.to_date - lr.from_date) + SumSpansExclusive(S \ {lr})

used_leaves_exclusive(leave_requests) == SumSpansExclusive(leave_requests)

\* sum((lr.to_date - lr.from_date).days + 1 for lr in leave_requests)
used_leaves(leave_requests) == SumSpans(leave_requests)

\* max(0, default_entitlement - used_leaves)
remaining(used) ==
  IF default_entitlement - used > 0 THEN default_entitlement - used ELSE 0

\* The query of get_leave_balance: tenant, employee and status "approved".
ApprovedLeaves(rows, tenant_uuid, employee_uuid) ==
  {lr \in rows : /\ lr.tenant_id = tenant_uuid
                 /\ lr.employee_id = employee_uuid
                 /\ lr.status = "approved"}

get_leave_balance(tenant_id, employee_id, fault) ==
  /\ call' = [op |-> "get_leave_balance", fault |-> fault,
              args |-> [tenant_id |-> tenant_id, employee_id |-> employee_id]]
  /\ result' =
       IF UUID(tenant_id) = << >> \/ UUID(employee_id) = << >>
         THEN ErrorDict(BadUUIDError)
       ELSE IF fault = "query" THEN ErrorDict(StoreError)
       ELSE LET used == used_leaves(ApprovedLeaves(Rows(leaves, staged),
                                                   UUID(tenant_id)[1], UUID(employee_id)[1]))
            IN Dict([employee_id |-> employee_id,
                     entitlement |-> default_entitlement,
                     used |-> used,
                     remaining |-> remaining(used)])
  /\ UNCHANGED <<leaves, staged, now>>
  /\ UNCHANGED <<ingestVars, serviceVars, managerOf, approving>>

\* -------------------------------------------------- create_leave_request

\* LeaveRequest(id=uuid.uuid4(), ..., status="pending", created_at=datetime.utcnow())
NewLeaveRequest(id, tenant_uuid, employee_uuid, from_dt, to_dt, created_at) ==
  [id |-> id, tenant_id |-> tenant_uuid, employee_id |-> employee_uuid,
   from_date |-> from_dt, to_date |-> to_dt, status |-> "pending",
   approver_id |-> NULL, approved_at |-> << >>, created_at |-> created_at]

\* The except clause: self.db.rollback() discards what the session has staged.
Rollback(st) == << >>

\* The ids uuid.uuid4() has handed out are those of the rows the session knows.
NextLeaveUUID == LeaveUUIDs[Len(Flush(leaves, staged)) + 1]

create_leave_request(tenant_id, employee_id, from_date, to_date, fault) ==
  /\ UNCHANGED <<ingestVars, serviceVars, managerOf, approving>>
  /\ call' = [op |-> "create_leave_request", fault |-> fault,
              args |-> [tenant_id |-> tenant_id, employee_id |-> employee_id,
                        from_date |-> from_date, to_date |-> to_date]]
  /\ IF UUID(tenant_id) = << >> \/ UUID(employee_id) = << >>
       THEN /\ result' = ErrorDict(BadUUIDError)
            /\ staged' = Rollback(staged)
            /\ UNCHANGED <<leaves, now>>
     ELSE IF fromisoformat(from_date) = << >> \/ fromisoformat(to_date) = << >>
       THEN /\ result' = ErrorDict(BadDateError)
            /\ staged' = Rollback(staged)
            /\ UNCHANGED <<leaves, now>>
     ELSE
       /\ Len(Flush(leaves, staged)) < MaxLeaves
       /\ LET leave_request ==
                NewLeaveRequest(NextLeaveUUID, UUID(tenant_id)[1], UUID(employee_id)[1],
                                fromisoformat(from_date)[1], fromisoformat(to_date)[1],
                                now + 1)
              added == Append(staged, leave_request)      \* self.db.add(leave_request)
          IN CASE fault = "commit" ->
                    \* self.db.commit() raises: nothing is written, the except clause
                    \* rolls the session back.
                    /\ leaves' = leaves
                    /\ staged' = Rollback(added)
                    /\ now' = now
                    /\ result' = ErrorDict(StoreError)
               [] fault = "refresh" ->
                    \* self.db.commit() succeeds, self.db.refresh() raises: the
                    \* rollback of the except clause finds nothing staged.
                    /\ leaves' = Flush(leaves, added)
                    /\ staged' = Rollback(<< >>)
                    /\ now' = now + 1
                    /\ result' = ErrorDict(StoreError)
               [] OTHER ->
                    /\ leaves' = Flush(leaves, added)
                    /\ staged' = << >>
                    /\ now' = now + 1
                    /\ result' = Dict([status |-> "created",
                                       leave_id |-> leave_request.id])

\* ------------------------------------------------------------ approve_leave

ApproverRoles == {"manager", "hr", "ceo"}

\* self.db.query(Employee).filter(Employee.id == approver_uuid).first()
ApproverQuery(approver_uuid) == {e \in EmployeeRows : e.id = approver_uuid}

\* A role check that lets every employee with a row approve.
MayApprove_AnyRole(approver_uuid) == ApproverQuery(approver_uuid) # {}

\* not (not approver or approver.role not in ["manager", "hr", "ceo"])
MayApprove(approver_uuid) ==
  \E approver \in ApproverQuery(approver_uuid) : approver.role \in ApproverRoles

\* The query for the leave request: by id and tenant.
LeaveQuery(rows, leave_uuid, tenant_uuid) ==
  {lr \in rows : lr.id = leave_uuid /\ lr.tenant_id = tenant_uuid}

\* A status guard that lets every request through.
NotPending_Never(leave_request) == FALSE

\* leave_request.status != "pending"
NotPending(leave_request) == leave_request.status # "pending"

\* The checks with the status guard ahead of the authorization check.
ApproveBranch_StatusFirst(rows, tenant_uuid, approver_uuid, leave_uuid) ==
  IF LeaveQuery(rows, leave_uuid, tenant_uuid) = {} THEN
    (IF ~MayApprove(approver_uuid) THEN "unauthorized" ELSE "not_found")
  ELSE IF NotPending(CHOOSE lr \in LeaveQuery(rows, leave_uuid, tenant_uuid) : TRUE)
    THEN "not_pending"
  ELSE IF ~MayApprove(approver_uuid) THEN "unauthorized"
  ELSE "approve"

\* The order of the checks of approve_leave and the return each one ends in.
ApproveBranch(rows, tenant_uuid, approver_uuid, leave_uuid) ==
  IF ~MayApprove(approver_uuid) THEN "unauthorized"
  ELSE IF LeaveQuery(rows, leave_uuid, tenant_uuid) = {} THEN "not_found"
  ELSE IF NotPending(CHOOSE lr \in LeaveQuery(rows, leave_uuid, tenant_uuid) : TRUE)
    THEN "not_pending"
  ELSE "approve"

AuthError == "Only managers, HR, or CEO can approve leaves"
NotFoundError == "Leave request not found"
\* f"Leave request is already {leave_request.status}"
AlreadyError(status) ==
  CASE status = "approved" -> "Leave request is already approved"
    [] status = "rejected" -> "Leave request is already rejected"
    [] OTHER -> "Leave request is already pending"

\* status, approver_id and approved_at as approve_leave assigns them.
Approved(leave_request, approver_uuid, at) ==
  [leave_request EXCEPT !.status = "approved",
                        !.approver_id = approver_uuid,
                        !.approved_at = <<at>>]

approve_leave(tenant_id, approver_id, leave_id, fault) ==
  /\ UNCHANGED <<ingestVars, serviceVars, managerOf, approving>>
  /\ call' = [op |-> "approve_leave", fault |-> fault,
              args |-> [tenant_id |-> tenant_id, approver_id |-> approver_id,
                        leave_id |-> leave_id]]
  /\ IF UUID(tenant_id) = << >> \/ UUID(approver_id) = << >> \/ UUID(leave_id) = << >>
       THEN /\ result' = ErrorDict(BadUUIDError)
            /\ staged' = Rollback(staged)
            /\ UNCHANGED <<leaves, now>>
     ELSE IF fault = "query"
       THEN /\ result' = ErrorDict(StoreError)
            /\ staged' = Rollback(staged)
            /\ UNCHANGED <<leaves, now>>
     ELSE
       LET rows == Rows(leaves, staged)
           branch == ApproveBranch(rows, UUID(tenant_id)[1], UUID(approver_id)[1],
                                   UUID(leave_id)[1])
           found == LeaveQuery(rows, UUID(leave_id)[1], UUID(tenant_id)[1])
       IN CASE branch = "unauthorized" ->
                 /\ result' = ErrorDict(AuthError)
                 /\ UNCHANGED <<leaves, staged, now>>
            [] branch = "not_found" ->
                 /\ result' = ErrorDict(NotFoundError)
                 /\ UNCHANGED <<leaves, staged, now>>
            [] branch = "not_pending" ->
                 /\ result' = ErrorDict(AlreadyError((CHOOSE lr \in found : TRUE).status))
                 /\ UNCHANGED <<leaves, staged, now>>
            [] OTHER ->
                 /\ LET leave_request == CHOOSE lr \in found : TRUE
                        dirty == Append(staged,
                                        Approved(leave_request, UUID(approver_id)[1], now + 1))
                    IN IF fault = "commit"
                         THEN /\ leaves' = leaves
                              /\ staged' = Rollback(dirty)
                              /\ now' = now
                              /\ result' = ErrorDict(StoreError)
                         ELSE /\ leaves' = Flush(leaves, dirty)
                              /\ staged' = << >>
                              /\ now' = now + 1
                              /\ result' = Dict([status |-> "approved",
                                                 leave_id |-> leave_id])

\* {"status": "approved", "leave_id": leave_id, ...}
ApprovedDict(leave_id) == Dict([status |-> "approved", leave_id |-> leave_id])

\* approve_leave under concurrency: each call runs in a request of its own, with a
\* session of its own, and nothing in the handler locks the row between its read
\* and its commit. A call is two steps: the reads and checks, then the assignments
\* with the commit.
Calls == {1, 2}

IdleApproval ==
  [pc |-> "idle", tenant_id |-> NULL, approver_id |-> NULL, leave_id |-> NULL,
   leave_request |-> << >>, approved_at |-> << >>, result |-> Dict([status |-> "none"])]

\* The approver query, the role check, the leave query and the status guard, on
\* the rows committed when the call reads them.
ApproveRead(c, tenant_id, approver_id, leave_id) ==
  /\ approving[c].pc = "idle"
  /\ LET branch == ApproveBranch(Rows(leaves, << >>), UUID(tenant_id)[1],
                                 UUID(approver_id)[1], UUID(leave_id)[1])
         found == LeaveQuery(Rows(leaves, << >>), UUID(leave_id)[1], UUID(tenant_id)[1])
         started == [approving[c] EXCEPT !.tenant_id = tenant_id,
                                         !.approver_id = approver_id,
                                         !.leave_id = leave_id]
     IN approving' =
          [approving EXCEPT ![c] =
             CASE branch = "unauthorized" ->
                    [started EXCEPT !.pc = "done", !.result = ErrorDict(AuthError)]
               [] branch = "not_found" ->
                    [started EXCEPT !.pc = "done", !.result = ErrorDict(NotFoundError)]
               [] branch = "not_pending" ->
                    [started EXCEPT !.pc = "done",
                                    !.result = ErrorDict(AlreadyError(
                                                 (CHOOSE lr \in found : TRUE).status))]
               [] OTHER ->
                    [started EXCEPT !.pc = "write",
                                    !.leave_request = <<CHOOSE lr \in found : TRUE>>]]
  /\ UNCHANGED <<toolVars, ingestVars, serviceVars, managerOf>>

\* The assignments to the row the call has loaded, and the commit: the UPDATE of
\* the row by its id goes through whatever another call has committed in between,
\* or the commit raises and the call rolls back.
ApproveWrite(c, fault) ==
  /\ approving[c].pc = "write"
  /\ LET a == approving[c]
         dirty == <<Approved(a.leave_request[1], UUID(a.approver_id)[1], now + 1)>>
     IN IF fault = "commit"
          THEN /\ approving' = [approving EXCEPT ![c].pc = "done",
                                                 ![c].result = ErrorDict(StoreError)]
               /\ UNCHANGED <<leaves, now>>
          ELSE /\ leaves' = Flush(leaves, dirty)
               /\ now' = now + 1
               /\ approving' = [approving EXCEPT ![c].pc = "done",
                                                 ![c].approved_at = <<now + 1>>,
                                                 ![c].result = ApprovedDict(a.leave_id)]
  /\ UNCHANGED <<staged, call, result>>
  /\ UNCHANGED <<ingestVars, serviceVars, managerOf>>

\* ------------------------------------------------------------ get_org_chart

\* f"{first_name} {last_name}"
FullName(e) == <<e.first_name, e.last_name>>

\* {"id": str(e.id), "name": ..., "role": e.role}
EmployeeInfo(e) == [id |-> e.id, name |-> FullName(e), role |-> e.role]

\* The query for emp: by id and tenant.
EmployeeQuery(employee_uuid, tenant_uuid) ==
  {e \in EmployeeRows : e.id = employee_uuid /\ e.tenant_id = tenant_uuid}

\* self.db.query(Employee).filter(Employee.id == emp.reporting_manager_id).first()
ManagerQuery(emp) == {m \in EmployeeRows : m.id = emp.reporting_manager_id}

\* A reports query that forgets is_active.
ReportsQuery_AnyStatus(emp) ==
  {r \in EmployeeRows : r.reporting_manager_id = emp.id}

\* The query for the direct reports: reporting_manager_id == emp.id and is_active.
ReportsQuery(emp) ==
  {r \in EmployeeRows : r.reporting_manager_id = emp.id /\ r.is_active}

\* manager_info: << >> is None. direct_reports is a list in an order the query leaves
\* unspecified: it is modelled by the set of its entries.
get_org_chart(tenant_id, employee_id, fault) ==
  /\ call' = [op |-> "get_org_chart", fault |-> fault,
              args |-> [tenant_id |-> tenant_id, employee_id |-> employee_id]]
  /\ result' =
       IF UUID(tenant_id) = << >> \/ UUID(employee_id) = << >>
         THEN ErrorDict(BadUUIDError)
       ELSE IF fault = "query" THEN ErrorDict(StoreError)
       ELSE IF EmployeeQuery(UUID(employee_id)[1], UUID(tenant_id)[1]) = {}
         THEN ErrorDict("Employee not found")
       ELSE LET emp == CHOOSE e \in EmployeeQuery(UUID(employee_id)[1], UUID(tenant_id)[1]) : TRUE
                manager_info ==
                  IF emp.reporting_manager_id # NULL /\ ManagerQuery(emp) # {}
                    THEN <<EmployeeInfo(CHOOSE m \in ManagerQuery(emp) : TRUE)>>
                    ELSE << >>
                reports_info == {EmployeeInfo(r) : r \in ReportsQuery(emp)}
            IN Dict([employee |-> FullName(emp),
                     manager |-> manager_info,
                     direct_reports |-> reports_info,
                     total_reports |-> Cardinality(reports_info)])
  /\ UNCHANGED <<leaves, staged, now>>
  /\ UNCHANGED <<ingestVars, serviceVars, managerOf, approving>>

\* ---------------------------------------------------- get_my_leave_requests

\* datetime.isoformat() of a day read back from the store.
isoformat(d) ==
  CASE d = 1 -> "2024-01-01T00:00:00"
    [] d = 3 -> "2024-01-03T00:00:00"
    [] OTHER -> "2024-01-15T00:00:00"

RECURSIVE NewestFirst(_)
\* order_by(LeaveRequest.created_at.desc())
NewestFirst(S) ==
  IF S = {} THEN << >>
  ELSE LET top == CHOOSE x \in S : \A y \in S : y.created_at <= x.created_at
       IN <<top>> \o NewestFirst(S \ {top})

\* limit(n)
Limit(xs, n) == IF Len(xs) <= n THEN xs ELSE SubSeq(xs, 1, n)

\* The entry of "requests" for one row.
RequestInfo(lr) ==
  [id |-> lr.id, from_date |-> isoformat(lr.from_date), to_date |-> isoformat(lr.to_date),
   status |-> lr.status]

get_my_leave_requests(tenant_id, employee_id, n, fault) ==
  /\ call' = [op |-> "get_my_leave_requests", fault |-> fault,
              args |-> [tenant_id |-> tenant_id, employee_id |-> employee_id, n |-> n]]
  /\ result' =
       IF UUID(tenant_id) = << >> \/ UUID(employee_id) = << >>
         THEN ErrorDict(BadUUIDError)
       ELSE IF fault = "query" THEN ErrorDict(StoreError)
       ELSE LET leave_requests ==
                  Limit(NewestFirst({lr \in Rows(leaves, staged) :
                                       /\ lr.tenant_id = UUID(tenant_id)[1]
                                       /\ lr.employee_id = UUID(employee_id)[1]}), n)
            IN Dict([employee_id |-> employee_id,
                     requests |-> [i \in 1..Len(leave_requests) |->
                                     RequestInfo(leave_requests[i])]])
  /\ UNCHANGED <<leaves, staged, now>>
  /\ UNCHANGED <<ingestVars, serviceVars, managerOf, approving>>

\* ----------------------------------------------------- get_employee_profile

\* The mapping get_employee_profile returns for a row.
Profile(employee) ==
  [id |-> employee.id, name |-> FullName(employee), email |-> employee.email,
   department |-> employee.department, role |-> employee.role,
   is_active |-> employee.is_active]

\* The body of get_employee_profile, which find_employee calls too.
ProfileResult(tenant_id, employee_id, fault) ==
  IF UUID(tenant_id) = << >> \/ UUID(employee_id) = << >>
    THEN ErrorDict(BadUUIDError)
  ELSE IF fault = "query" THEN ErrorDict(StoreError)
  ELSE IF EmployeeQuery(UUID(employee_id)[1], UUID(tenant_id)[1]) = {}
    THEN ErrorDict("Employee not found")
  ELSE Dict(Profile(CHOOSE e \in EmployeeQuery(UUID(employee_id)[1], UUID(tenant_id)[1]) : TRUE))

get_employee_profile(tenant_id, employee_id, fault) ==
  /\ call' = [op |-> "get_employee_profile", fault |-> fault,
              args |-> [tenant_id |-> tenant_id, employee_id |-> employee_id]]
  /\ result' = ProfileResult(tenant_id, employee_id, fault)
  /\ UNCHANGED <<leaves, staged, now>>
  /\ UNCHANGED <<ingestVars, serviceVars, managerOf, approving>>

\* ----------------------------------------------- list_employees, find_employee

\* column.ilike(f"%{query}%"): the pairs (column value, query) that match among the
\* values of the employees table and the queries of the model.
ilike(value, query) ==
  <<value, query>> \in {<<"alice", "ali">>, <<"alina", "ali">>, <<"ali", "ali">>,
                         <<"alice@hr.io", "ali">>}

\* The rows list_employees selects: the tenant's active employees, narrowed by query
\* and department when these are given ("" and None are not).
ListQuery(tenant_uuid, query, department) ==
  {e \in EmployeeRows :
     /\ e.tenant_id = tenant_uuid /\ e.is_active
     /\ (query \notin {NULL, ""}
           => ilike(e.first_name, query) \/ ilike(e.last_name, query) \/ ilike(e.email, query))
     /\ (department \notin {NULL, ""} => e.department = department)}

\* The entry of the list for one row.
ListEntry(e) ==
  [id |-> e.id, name |-> FullName(e), email |-> e.email, department |-> e.department,
   role |-> e.role]

\* What list_employees returns. The list is in an order the query leaves
\* unspecified: it is modelled by the set of its entries. except: return []
ListResult(tenant_id, query, department, fault) ==
  IF UUID(tenant_id) = << >> THEN List({})
  ELSE IF fault = "query" THEN List({})
  ELSE List({ListEntry(e) : e \in ListQuery(UUID(tenant_id)[1], query, department)})

list_employees(tenant_id, query, department, fault) ==
  /\ call' = [op |-> "list_employees", fault |-> fault,
              args |-> [tenant_id |-> tenant_id, query |-> query,
                        department |-> department]]
  /\ result' = ListResult(tenant_id, query, department, fault)
  /\ UNCHANGED <<leaves, staged, now>>
  /\ UNCHANGED <<ingestVars, serviceVars, managerOf, approving>>

\* results[0] is any entry of the list; the profile is then looked up by its id.
find_employee(tenant_id, query, fault) ==
  /\ call' = [op |-> "find_employee", fault |-> fault,
              args |-> [tenant_id |-> tenant_id, query |-> query]]
  /\ LET results == ListResult(tenant_id, query, NULL, fault).value
     IN IF results = {}
          THEN result' = ErrorDict("No employee found")
          ELSE \E top_match \in results :
                 result' = ProfileResult(tenant_id, top_match.id, "none")
  /\ UNCHANGED <<leaves, staged, now>>
  /\ UNCHANGED <<ingestVars, serviceVars, managerOf, approving>>

\* ---------------------------------------------------------- summarize_policy

DocumentUUIDs == {"D1", "D9"}

\* The documents table: D1 belongs to tenant T1; D9 is a well-formed id with no row.
Document == [D1 |-> [id |-> "D1", tenant_id |-> "T1", title |-> "Leave policy"]]

DocumentQuery(doc_uuid, tenant_uuid) ==
  {Document[k] : k \in {k \in DOMAIN Document :
                          Document[k].id = doc_uuid /\ Document[k].tenant_id = tenant_uuid}}

\* tools.py does not import DocumentChunk: once the document is found, the chunk
\* query raises NameError, which the except clause returns as the error.
summarize_policy(tenant_id, doc_id, fault) ==
  /\ call' = [op |-> "summarize_policy", fault |-> fault,
              args |-> [tenant_id |-> tenant_id, doc_id |-> doc_id]]
  /\ result' =
       IF UUID(tenant_id) = << >> \/ UUID(doc_id) = << >> THEN ErrorDict(BadUUIDError)
       ELSE IF fault = "query" THEN ErrorDict(StoreError)
       ELSE IF DocumentQuery(UUID(doc_id)[1], UUID(tenant_id)[1]) = {}
         THEN ErrorDict("Document not found")
       ELSE ErrorDict(NameErrorMsg)
  /\ UNCHANGED <<leaves, staged, now>>
  /\ UNCHANGED <<ingestVars, serviceVars, managerOf, approving>>

\* --------------------------------------------------- estimate_tax_deduction

\* A slab that takes the thresholds themselves into the higher rate.
rate_inclusive(gross_amount) ==
  IF gross_amount >= 100000 THEN 30 ELSE IF gross_amount >= 50000 THEN 20 ELSE 10

\* rate, in percent: 0.30 above 100000, 0.20 above 50000, else 0.10
rate(gross_amount) ==
  IF gross_amount > 100000 THEN 30 ELSE IF gross_amount > 50000 THEN 20 ELSE 10

\* gross_amount * rate. The amounts of the model are multiples of 10, for which the
\* product is a whole number and the floating-point product is exact.
estimated_tax(gross_amount) == (gross_amount * rate(gross_amount)) \div 100

\* f"{int(rate*100)}%"
applied_rate(gross_amount) == <<rate(gross_amount), "%">>

estimate_tax_deduction(tenant_id, employee_id, gross_amount) ==
  /\ call' = [op |-> "estimate_tax_deduction", fault |-> "none",
              args |-> [tenant_id |-> tenant_id, employee_id |-> employee_id,
                        gross_amount |-> gross_amount]]
  /\ result' = Dict([gross_amount |-> gross_amount,
                     estimated_tax |-> estimated_tax(gross_amount),
                     net_amount |-> gross_amount - estimated_tax(gross_amount),
                     applied_rate |-> applied_rate(gross_amount)])
  /\ UNCHANGED <<leaves, staged, now>>
  /\ UNCHANGED <<ingestVars, serviceVars, managerOf, approving>>

\* --------------------------------------------------------- download_payslip

\* datetime(year, month, day), as << >> when it raises ValueError (a month outside
\* 1..12) and else as a number that orders the dates of the model as the calendar
\* does.
datetime(year, month, day) ==
  IF month \in 1..12 /\ day \in 1..31 THEN <<(year * 12 + (month - 1)) * 31 + (day - 1)>>
  ELSE << >>

BadMonthError == "month must be in 1..12"

\* The paystubs table.
PaystubUUIDs == {"P1", "P2", "P3", "P4", "P5", "P6"}

Paystub ==
  [P1 |-> [id |-> "P1", tenant_id |-> "T1", employee_id |-> "e1",
           pay_period_end |-> datetime(2024, 12, 31)[1]],
   P2 |-> [id |-> "P2", tenant_id |-> "T1", employee_id |-> "e1",
           pay_period_end |-> datetime(2025, 1, 1)[1]],
   P3 |-> [id |-> "P3", tenant_id |-> "T1", employee_id |-> "e1",
           pay_period_end |-> datetime(2024, 12, 1)[1]],
   P4 |-> [id |-> "P4", tenant_id |-> "T1", employee_id |-> "e1",
           pay_period_end |-> datetime(2024, 11, 30)[1]],
   P5 |-> [id |-> "P5", tenant_id |-> "T1", employee_id |-> "e2",
           pay_period_end |-> datetime(2025, 1, 1)[1]],
   P6 |-> [id |-> "P6", tenant_id |-> "T2", employee_id |-> "e3",
           pay_period_end |-> datetime(2024, 12, 15)[1]]]

\* start_date = datetime(year, month, 1)
start_date(year, month) == datetime(year, month, 1)

\* end_date: the first day of the next month, of the next year after December
end_date(year, month) ==
  IF month = 12 THEN datetime(year + 1, 1, 1) ELSE datetime(year, month + 1, 1)

\* A range that takes its upper bound in.
InPeriod_Closed(pay_period_end, start, end) ==
  pay_period_end >= start /\ pay_period_end <= end

\* Paystub.pay_period_end >= start_date, Paystub.pay_period_end < end_date
InPeriod(pay_period_end, start, end) ==
  pay_period_end >= start /\ pay_period_end < end

\* The rows the paystub query matches; .first() returns one of them.
PaystubQuery(tenant_uuid, employee_uuid, start, end) ==
  {Paystub[k] : k \in {k \in PaystubUUIDs :
     /\ Paystub[k].tenant_id = tenant_uuid
     /\ Paystub[k].employee_id = employee_uuid
     /\ InPeriod(Paystub[k].pay_period_end, start, end)}}

NoPayslipError(month, year) == <<"No payslip found for", month, year>>

download_payslip(tenant_id, employee_id, month, year, fault) ==
  /\ call' = [op |-> "download_payslip", fault |-> fault,
              args |-> [tenant_id |-> tenant_id, employee_id |-> employee_id,
                        month |-> month, year |-> year]]
  /\ IF UUID(tenant_id) = << >> \/ UUID(employee_id) = << >>
       THEN result' = ErrorDict(BadUUIDError)
     ELSE IF start_date(year, month) = << >> \/ end_date(year, month) = << >>
       THEN result' = ErrorDict(BadMonthError)
     ELSE IF fault = "query"
       THEN result' = ErrorDict(StoreError)
     ELSE LET found == PaystubQuery(UUID(tenant_id)[1], UUID(employee_id)[1],
                                    start_date(year, month)[1], end_date(year, month)[1])
          IN IF found = {}
               THEN result' = ErrorDict(NoPayslipError(month, year))
               ELSE \E paystub \in found :
                      result' = Dict([file_name |-> <<"Payslip", year, month, ".pdf">>,
                                      download_url |-> <<"/api/payroll/download/", paystub.id>>,
                                      generated_at |-> now])
  /\ UNCHANGED <<leaves, staged, now>>
  /\ UNCHANGED <<ingestVars, serviceVars, managerOf, approving>>

\* ------------------------------------------------------ ingest_document_task

\* The most chunks document D1 has, and the most runs of the task in a behaviour.
MaxChunks == 3
MaxRuns == 3

Runs == {1, 2}

ChunkUUIDs == <<"c1", "c2", "c3", "c4">>

\* The document_chunks rows of D1, by chunk_index. The chunks of even index carry a
\* redacted variant of their content.
Chunk(i) ==
  [id |-> ChunkUUIDs[i], chunk_index |-> i, content |-> <<"content", i>>,
   content_redacted |-> IF i % 2 = 0 THEN <<"redacted", i>> ELSE << >>]

\* chunk.content_redacted or chunk.content
EmbeddedContent(chunk) ==
  IF chunk.content_redacted # << >> THEN chunk.content_redacted ELSE chunk.content

\* What llm_service.get_embedding returns for a text when the endpoint answers.
Embedding(text) == <<"embedding", text>>

\* db.query(Document).filter(Document.id == document_id).first()
DocQuery(document_id) == {Document[k] : k \in {k \in DOMAIN Document : Document[k].id = document_id}}

\* A task that never short-circuits on a processed document.
AlreadyProcessed_Never(ingestion_status) == FALSE

\* doc.ingestion_status == "completed"
AlreadyProcessed(ingestion_status) == ingestion_status = "completed"

RECURSIVE SelectSeq2(_, _, _)
\* [x for x, e in zip(xs, es) if e is not None], from position i on
SelectSeq2(xs, es, i) ==
  IF i > Len(xs) \/ i > Len(es) THEN << >>
  ELSE (IF es[i] # << >> THEN <<xs[i]>> ELSE << >>) \o SelectSeq2(xs, es, i + 1)

\* A filter that keeps the chunks whose embedding failed.
valid_chunks_unfiltered(chunks, embeddings) == chunks

\* valid_chunks = [c for c, e in zip(chunks, embeddings) if e is not None]
valid_chunks(chunks, embeddings) == SelectSeq2(chunks, embeddings, 1)

\* valid_embeddings = [e for e in embeddings if e is not None]
valid_embeddings(embeddings) ==
  LET kept == SelectSeq2(embeddings, embeddings, 1)
  IN [i \in 1..Len(kept) |-> kept[i][1]]

\* A run that has not started, and the locals of one that has. doc is "unbound"
\* until the lookup has assigned it; embeddings holds << >> for None.
IdleTask ==
  [pc |-> "idle", document_id |-> NULL, doc |-> "unbound", chunks |-> << >>,
   embeddings |-> << >>, dirtyStatus |-> << >>, dirtyEmb |-> {}, onCommit |-> Dict([status |-> "none"]),
   result |-> Dict([status |-> "none"]), pre |-> << >>]

\* A commit that leaves the document's status as it was.
CommittedStatus_Kept(t) == docStatus

\* A commit that marks every chunk of the document once one chunk is marked.
CommittedEmb_All(t) ==
  [i \in 1..Len(chunkEmb) |-> IF t.dirtyEmb # {} THEN ChunkUUIDs[i] ELSE chunkEmb[i]]

\* A return that leaves the session open.
Return_NoClose(r, res) ==
  /\ task' = [task EXCEPT ![r].pc = "done", ![r].result = res]
  /\ UNCHANGED sessions

\* What the run's session has pending, written by a commit that succeeds.
CommittedStatus(t) == IF t.dirtyStatus # << >> THEN t.dirtyStatus[1] ELSE docStatus
CommittedEmb(t) ==
  [i \in 1..Len(chunkEmb) |-> IF i \in t.dirtyEmb THEN ChunkUUIDs[i] ELSE chunkEmb[i]]

\* return ...: the finally clause closes the session and the run is over.
Return(r, res) ==
  /\ task' = [task EXCEPT ![r].pc = "done", ![r].result = res]
  /\ sessions' = [sessions EXCEPT !.closed = @ + 1]

\* db = SessionLocal(): a run starts.
Begin(r, document_id) ==
  /\ task[r].pc \in {"idle", "done"}
  /\ runs < MaxRuns
  /\ runs' = runs + 1
  /\ sessions' = [sessions EXCEPT !.opened = @ + 1]
  /\ task' = [task EXCEPT ![r] =
                [IdleTask EXCEPT !.pc = "lookup", !.document_id = document_id,
                                 !.pre = <<[docStatus |-> docStatus, chunkEmb |-> chunkEmb,
                                            vsWrites |-> vsWrites,
                                            embedCalls |-> embedCalls]>>]]
  /\ UNCHANGED <<docStatus, chunkEmb, vsWrites, embedCalls>>
  /\ UNCHANGED <<toolVars, serviceVars, managerOf, approving>>

\* The document lookup and the two early returns.
Lookup(r, fault) ==
  /\ task[r].pc = "lookup"
  /\ IF fault = "raise"
       THEN /\ task' = [task EXCEPT ![r].pc = "except"]
            /\ UNCHANGED sessions
     ELSE IF DocQuery(task[r].document_id) = {}
       THEN Return(r, Dict([status |-> "error", message |-> "Document not found"]))
     ELSE IF AlreadyProcessed(docStatus)
       THEN Return(r, Dict([status |-> "completed", document_id |-> task[r].document_id]))
     ELSE /\ task' = [task EXCEPT ![r].pc = "chunks", ![r].doc = task[r].document_id]
          /\ UNCHANGED sessions
  /\ UNCHANGED <<docStatus, chunkEmb, vsWrites, embedCalls, runs>>
  /\ UNCHANGED <<toolVars, serviceVars, managerOf, approving>>

\* The chunk query, in chunk_index order, and the no-chunks branch.
QueryChunks(r, fault) ==
  /\ task[r].pc = "chunks"
  /\ IF fault = "raise"
       THEN task' = [task EXCEPT ![r].pc = "except"]
     ELSE IF Len(chunkEmb) = 0
       THEN task' = [task EXCEPT ![r].pc = "commit", ![r].dirtyStatus = <<"failed">>,
                                 ![r].onCommit = Dict([status |-> "error",
                                                       message |-> "No chunks found"])]
     ELSE task' = [task EXCEPT ![r].pc = "embed",
                               ![r].chunks = [i \in 1..Len(chunkEmb) |-> Chunk(i)]]
  /\ UNCHANGED <<docStatus, chunkEmb, vsWrites, embedCalls, sessions, runs>>
  /\ UNCHANGED <<toolVars, serviceVars, managerOf, approving>>

\* One turn of the embedding loop: the call for the next chunk answers or raises.
Embed(r, ok) ==
  /\ task[r].pc = "embed"
  /\ Len(task[r].embeddings) < Len(task[r].chunks)
  /\ LET chunk == task[r].chunks[Len(task[r].embeddings) + 1]
         embedding == IF ok THEN <<Embedding(EmbeddedContent(chunk))>> ELSE << >>
     IN task' = [task EXCEPT ![r].embeddings = Append(@, embedding)]
  /\ embedCalls' = embedCalls + 1
  /\ UNCHANGED <<docStatus, chunkEmb, vsWrites, sessions, runs>>
  /\ UNCHANGED <<toolVars, serviceVars, managerOf, approving>>

\* After the loop: the failed embeddings are filtered out; with none left the
\* document is marked failed, otherwise the surviving chunks and embeddings are
\* handed to the vector store, the chunks get their embedding_id and the document
\* is marked completed.
Ingest(r, fault) ==
  /\ task[r].pc = "embed"
  /\ Len(task[r].embeddings) = Len(task[r].chunks)
  /\ LET vc == valid_chunks(task[r].chunks, task[r].embeddings)
         ve == valid_embeddings(task[r].embeddings)
     IN IF vc = << >>
          THEN /\ task' = [task EXCEPT ![r].pc = "commit", ![r].dirtyStatus = <<"failed">>,
                                       ![r].onCommit =
                                         Dict([status |-> "error",
                                               message |-> "Embedding generation failed"])]
               /\ UNCHANGED vsWrites
        ELSE IF fault = "raise"
          THEN /\ task' = [task EXCEPT ![r].pc = "except"]
               /\ UNCHANGED vsWrites
        ELSE /\ vsWrites' = Append(vsWrites,
                                   [tenant_id |-> Document[task[r].doc].tenant_id,
                                    chunks |-> [i \in 1..Len(vc) |-> vc[i].id],
                                    embeddings |-> ve])
             /\ task' = [task EXCEPT ![r].pc = "commit",
                                     ![r].dirtyEmb = {vc[i].chunk_index : i \in 1..Len(vc)},
                                     ![r].dirtyStatus = <<"completed">>,
                                     ![r].onCommit =
                                       Dict([status |-> "completed",
                                             document_id |-> task[r].document_id,
                                             chunks_ingested |-> Len(vc)])]
  /\ UNCHANGED <<docStatus, chunkEmb, embedCalls, sessions, runs>>
  /\ UNCHANGED <<toolVars, serviceVars, managerOf, approving>>

\* db.commit() in the try block, and the return that follows it.
Commit(r, fault) ==
  /\ task[r].pc = "commit"
  /\ IF fault = "raise"
       THEN /\ task' = [task EXCEPT ![r].pc = "except"]
            /\ UNCHANGED <<docStatus, chunkEmb, sessions>>
       ELSE /\ docStatus' = CommittedStatus(task[r])
            /\ chunkEmb' = CommittedEmb(task[r])
            /\ Return(r, task[r].onCommit)
  /\ UNCHANGED <<vsWrites, embedCalls, runs>>
  /\ UNCHANGED <<toolVars, serviceVars, managerOf, approving>>

\* The except clause. With doc unbound, `if doc:` raises UnboundLocalError out of
\* the task. Otherwise the document is marked failed and committed: the commit
\* raises, or writes the status alone (the session dropped what the failed
\* commit had pending), or writes the status with what was still pending.
Except(r, outcome) ==
  /\ task[r].pc = "except"
  /\ IF task[r].doc = "unbound"
       THEN /\ Return(r, Raise("UnboundLocalError"))
            /\ UNCHANGED <<docStatus, chunkEmb>>
     ELSE CASE outcome = "raise" ->
                 /\ Return(r, Raise(StoreError))
                 /\ UNCHANGED <<docStatus, chunkEmb>>
            [] outcome = "status" ->
                 /\ docStatus' = "failed"
                 /\ UNCHANGED chunkEmb
                 /\ Return(r, Dict([status |-> "error", message |-> StoreError]))
            [] OTHER ->
                 /\ docStatus' = "failed"
                 /\ chunkEmb' = CommittedEmb(task[r])
                 /\ Return(r, Dict([status |-> "error", message |-> StoreError]))
  /\ UNCHANGED <<vsWrites, embedCalls, runs>>
  /\ UNCHANGED <<toolVars, serviceVars, managerOf, approving>>

\* The state of the ingestion side before any run.
IngestIdle ==
  /\ docStatus = "pending"
  /\ chunkEmb = << >>
  /\ vsWrites = << >>
  /\ embedCalls = 0
  /\ sessions = [opened |-> 0, closed |-> 0]
  /\ runs = 0
  /\ task = [r \in Runs |-> IdleTask]

\* ------------------------------------------------- LLMService.chat_completion

\* The most tool calls one response of the chat endpoint requests.
MaxCalls == 3

\* self.tools: the names register_tools has registered (two of them stand for all),
\* and a name the model may ask for that nobody registered.
RegisteredTools == {"get_leave_balance", "estimate_tax_deduction"}
RequestedNames == RegisteredTools \cup {"reset_password"}

\* The texts the model sends as function.arguments: an object, an array, and a text
\* that is no JSON at all.
ArgumentTexts == {"{}", "[1]", ""}

\* json.loads(tool_call.function.arguments): the decoded value, or << >> when the
\* text does not decode (JSONDecodeError).
json_loads(text) ==
  CASE text = "{}" -> <<[type |-> "dict", items |-> {}]>>
    [] text = "[1]" -> <<[type |-> "list", items |-> {1}]>>
    [] OTHER -> << >>

\* A dispatch that takes every requested name for a registered one.
Registered_Any(tool_name) == TRUE

\* tool_name in self.tools
Registered(tool_name) == tool_name \in RegisteredTools

\* A chat_completion that has not been called.
IdleChat ==
  [pc |-> "idle", use_tools |-> FALSE, created |-> FALSE, requested |-> << >>, i |-> 1,
   tool_calls |-> << >>, log |-> << >>, outcome |-> "none"]

\* chat_completion(messages, use_tools): the tools schema is built and the remote
\* call is about to be made.
chat_completion(use_tools) ==
  /\ chat.pc = "idle"
  /\ chat' = [chat EXCEPT !.pc = "create", !.use_tools = use_tools]
  /\ UNCHANGED <<toolVars, ingestVars, pii, managerOf, approving>>

\* self.client.chat.completions.create(...): it raises, and chat_completion raises
\* with it, or it answers with a message that requests the tool calls given; without
\* a tools schema the model has nothing to request.
Create(fault, tool_calls) ==
  /\ chat.pc = "create"
  /\ IF fault = "raise"
       THEN chat' = [chat EXCEPT !.pc = "done", !.outcome = "raise"]
       ELSE /\ (~chat.use_tools => tool_calls = << >>)
            /\ chat' = [chat EXCEPT !.pc = "loop", !.created = TRUE,
                                    !.requested = tool_calls]
  /\ UNCHANGED <<toolVars, ingestVars, pii, managerOf, approving>>

\* The head of one turn of `for tool_call in message.tool_calls`: the arguments are
\* decoded, outside the try of the call, so a text that does not decode ends
\* chat_completion in the outer except, which raises; a registered name has its
\* handler started, an unknown one is logged and skipped.
Dispatch ==
  /\ chat.pc = "loop"
  /\ chat.i <= Len(chat.requested)
  /\ LET tool_call == chat.requested[chat.i]
         tool_args == json_loads(tool_call.arguments)
     IN IF tool_args = << >>
          THEN chat' = [chat EXCEPT !.pc = "done", !.outcome = "raise"]
        ELSE IF Registered(tool_call.name)
          THEN chat' = [chat EXCEPT !.pc = "running",
                                    !.log = Append(@, <<"start", chat.i>>)]
        ELSE chat' = [chat EXCEPT !.i = @ + 1]
  /\ UNCHANGED <<toolVars, ingestVars, pii, managerOf, approving>>

\* tool_func(**tool_args) comes back: with a result, or with an exception that the
\* try of the call turns into an error entry. Arguments that are no mapping cannot
\* be unpacked: the call raises TypeError.
Finish(ok) ==
  /\ chat.pc = "running"
  /\ LET tool_call == chat.requested[chat.i]
         tool_args == json_loads(tool_call.arguments)[1]
         returned == ok /\ tool_args.type = "dict"
         entry == IF returned
                    THEN [id |-> tool_call.id, name |-> tool_call.name,
                          arguments |-> tool_args,
                          result |-> <<"result", tool_call.name>>]
                    ELSE [id |-> tool_call.id, name |-> tool_call.name,
                          error |-> "tool failed"]
     IN chat' = [chat EXCEPT !.pc = "loop", !.i = @ + 1,
                             !.tool_calls = Append(@, entry),
                             !.log = Append(@, <<"finish", chat.i, returned>>)]
  /\ UNCHANGED <<toolVars, ingestVars, pii, managerOf, approving>>

\* return result
ChatReturn ==
  /\ chat.pc = "loop"
  /\ chat.i > Len(chat.requested)
  /\ chat' = [chat EXCEPT !.pc = "done", !.outcome = "return"]
  /\ UNCHANGED <<toolVars, ingestVars, pii, managerOf, approving>>

\* ------------------------------------------------------------ pii_detection

\* A text is a sequence of words. The texts of the model: without PII, with a
\* phone number, with an e-mail address and a phone number, and the empty text.
Texts ==
  {<<"hello">>, <<"call", "555-0100">>, <<"a@hr.io", "or", "555-0100">>, <<"a@hr.io">>,
   <<"hello", "again">>, << >>}

PIIWords == ("555-0100" :> "PHONE_NUMBER") @@ ("a@hr.io" :> "EMAIL_ADDRESS")

RECURSIVE Findings(_, _)
\* analyzer.analyze(text=text, entities=self.entities, language='en') when it
\* answers: one result for each word of the text that is PII, from position i on,
\* with its span (start included, end excluded, counted from 0).
Findings(text, i) ==
  IF i > Len(text) THEN << >>
  ELSE (IF text[i] \in DOMAIN PIIWords
          THEN <<[entity_type |-> PIIWords[text[i]], start |-> i - 1, end |-> i]>>
          ELSE << >>) \o Findings(text, i + 1)

analyze(text) == Findings(text, 1)

\* text[result.start:result.end]
Slice(text, start, end) == SubSeq(text, start + 1, end)

\* anonymizer.anonymize(text, analyzer_results, operators) when it answers: every
\* span found is replaced by the replacement.
anonymize(text, analyzer_results, replacement) ==
  [i \in 1..Len(text) |->
     IF \E n \in 1..Len(analyzer_results) :
          analyzer_results[n].start < i /\ i <= analyzer_results[n].end
       THEN replacement ELSE text[i]]

\* The module as imported: PRESIDIO_AVAILABLE, settings.pii_redaction_enabled, and
\* whether _analyzer and _anonymizer hold an engine.
IdlePII == [available |-> FALSE, flag |-> FALSE, analyzer |-> FALSE, anonymizer |-> FALSE]

\* self.enabled = settings.pii_redaction_enabled and PRESIDIO_AVAILABLE
enabled(p) == p.flag /\ p.available

\* _get_analyzer() / _get_anonymizer(): whether an engine is returned, which is also
\* what the module keeps: none without the library, the kept one if there is one,
\* else a new one unless its construction raises.
get_engine(p, kept, construction_raises) ==
  IF ~p.available THEN FALSE
  ELSE IF ~kept THEN ~construction_raises
  ELSE TRUE

\* The stages of a call that a failure can hit: the construction of an engine that
\* is not yet kept, the analysis, and the anonymization of a text with findings.
DetectFaults(p) ==
  {"none"} \cup (IF enabled(p) THEN {"analyze"} ELSE {})
           \cup (IF enabled(p) /\ ~p.analyzer THEN {"analyzer_init"} ELSE {})

RedactFaults(p, text) ==
  DetectFaults(p) \cup (IF enabled(p) /\ ~p.anonymizer THEN {"anonymizer_init"} ELSE {})
                  \cup (IF enabled(p) /\ analyze(text) # << >> THEN {"anonymize"} ELSE {})

\* What detect_pii returns.
Detected(p, text, fault) ==
  IF ~enabled(p) THEN << >>
  ELSE IF ~p.available THEN << >>
  ELSE IF ~get_engine(p, p.analyzer, fault = "analyzer_init") THEN << >>
  ELSE IF fault = "analyze" THEN << >>
  ELSE LET results == analyze(text)
       IN [n \in 1..Len(results) |->
             [entity_type |-> results[n].entity_type, start |-> results[n].start,
              end |-> results[n].end,
              text |-> Slice(text, results[n].start, results[n].end)]]

detect_pii(text, fault) ==
  /\ fault \in DetectFaults(pii)
  /\ call' = [op |-> "detect_pii", fault |-> fault, args |-> [text |-> text]]
  /\ result' = List(Detected(pii, text, fault))
  /\ pii' = IF enabled(pii)
              THEN [pii EXCEPT !.analyzer = get_engine(pii, @, fault = "analyzer_init")]
              ELSE pii
  /\ UNCHANGED <<leaves, staged, now, chat, managerOf, approving>>
  /\ UNCHANGED ingestVars

\* return len(self.detect_pii(text)) > 0
has_pii(text, fault) ==
  /\ fault \in DetectFaults(pii)
  /\ call' = [op |-> "has_pii", fault |-> fault, args |-> [text |-> text]]
  /\ result' = [kind |-> "bool", value |-> Len(Detected(pii, text, fault)) > 0]
  /\ pii' = IF enabled(pii)
              THEN [pii EXCEPT !.analyzer = get_engine(pii, @, fault = "analyzer_init")]
              ELSE pii
  /\ UNCHANGED <<leaves, staged, now, chat, managerOf, approving>>
  /\ UNCHANGED ingestVars

\* A handler that answers a failed redaction with the replacement alone.
redaction_failed_blank(text, replacement) == <<replacement>>

\* except Exception: ... return text
redaction_failed(text, replacement) == text

redact_pii(text, replacement, fault) ==
  /\ fault \in RedactFaults(pii, text)
  /\ call' = [op |-> "redact_pii", fault |-> fault, args |-> [text |-> text]]
  /\ LET analyzer == get_engine(pii, pii.analyzer, fault = "analyzer_init")
         anonymizer == get_engine(pii, pii.anonymizer, fault = "anonymizer_init")
     IN IF ~enabled(pii) \/ ~pii.available
          THEN /\ result' = [kind |-> "str", value |-> text]
               /\ pii' = pii
          ELSE /\ pii' = [pii EXCEPT !.analyzer = analyzer, !.anonymizer = anonymizer]
               /\ result' =
                    [kind |-> "str",
                     value |-> IF ~analyzer \/ ~anonymizer THEN text
                               ELSE IF fault = "analyze"
                                 THEN redaction_failed(text, replacement)
                               ELSE IF analyze(text) = << >> THEN text
                               ELSE IF fault = "anonymize"
                                 THEN redaction_failed(text, replacement)
                               ELSE anonymize(text, analyze(text), replacement)]
  /\ UNCHANGED <<leaves, staged, now, chat, managerOf, approving>>
  /\ UNCHANGED ingestVars

ServicesIdle == chat = IdleChat /\ pii = IdlePII

\* ------------------------------------------------------- the specification

\* Spec: the life of leave requests. Well-formed arguments, a store that may fail
\* at commit or refresh. The table starts empty or with one request that an HR
\* workflow outside this code has rejected.
Requesters == {"e1"}
Approvers == {"e1", "e2", "e3", "e9"}
LeaveIds == {LeaveUUIDs[i] : i \in 1..(MaxLeaves + 1)}

SeedRejected ==
  [NewLeaveRequest(LeaveUUIDs[1], "T1", "e1", 1, 3, 1) EXCEPT !.status = "rejected"]

InitialLeaves == {<< >>, <<SeedRejected>>}

NoCall == [op |-> "none", fault |-> "none", args |-> [tenant_id |-> NULL]]

Init ==
  /\ leaves \in InitialLeaves
  /\ staged = << >>
  /\ now = Len(leaves)
  /\ call = NoCall
  /\ result = Dict([status |-> "none"])
  /\ IngestIdle
  /\ ServicesIdle
  /\ managerOf = ReportingLines
  /\ approving = [c \in Calls |-> IdleApproval]

Next ==
  \/ \E t \in TenantUUIDs, e \in Requesters : get_leave_balance(t, e, "none")
  \/ \E t \in TenantUUIDs, e \in Requesters, f \in {"none", "commit", "refresh"} :
       create_leave_request(t, e, "2024-01-01", "2024-01-03", f)
  \/ \E t \in TenantUUIDs, a \in Approvers, l \in LeaveIds, f \in {"none", "commit"} :
       approve_leave(t, a, l, f)
  \/ \E t \in TenantUUIDs, e \in {"e2", "e3"} : get_org_chart(t, e, "none")

Spec == Init /\ [][Next]_vars

\* SpecBalance: get_leave_balance on every table of at most MaxRows requests of the
\* kinds create_leave_request and approve_leave (and a rejection) can have written.
MaxRows == 2

BalanceRowKinds ==
  [tenant_id : TenantUUIDs, employee_id : {"e1", "e3"},
   from_date : {1, 15}, to_date : {3, 15}, status : {"pending", "approved", "rejected"}]

BalanceRow(i, k) ==
  [NewLeaveRequest(LeaveUUIDs[i], k.tenant_id, k.employee_id, k.from_date, k.to_date, i)
     EXCEPT !.status = k.status,
            !.approver_id = IF k.status = "approved" THEN "e2" ELSE NULL,
            !.approved_at = IF k.status = "approved" THEN <<i>> ELSE << >>]

InitBalance ==
  /\ \E n \in 0..MaxRows : \E kinds \in [1..n -> BalanceRowKinds] :
       leaves = [i \in 1..n |-> BalanceRow(i, kinds[i])]
  /\ staged = << >>
  /\ now = Len(leaves)
  /\ call = NoCall
  /\ result = Dict([status |-> "none"])
  /\ IngestIdle
  /\ ServicesIdle
  /\ managerOf = ReportingLines
  /\ approving = [c \in Calls |-> IdleApproval]

NextBalance ==
  \E t \in TenantUUIDs \cup {BadUUID}, e \in {"e1", "e3"} : get_leave_balance(t, e, "none")

SpecBalance == InitBalance /\ [][NextBalance]_vars

\* SpecTools: every handler, with arguments that may be malformed and a store whose
\* query may fail, on one of a few tables. create_leave_request and approve_leave
\* are called here on their error paths only; Spec has their successful calls.
ToolTenantIds == TenantUUIDs \cup {BadUUID}
ToolEmployeeIds == EmployeeUUIDs \cup {BadUUID}
ToolDates == {"2024-01-01", "yesterday"}

SnapshotLeaves ==
  { << >>,
    <<BalanceRow(1, [tenant_id |-> "T1", employee_id |-> "e1", from_date |-> 1,
                     to_date |-> 3, status |-> "approved"])>>,
    <<BalanceRow(1, [tenant_id |-> "T1", employee_id |-> "e3", from_date |-> 1,
                     to_date |-> 3, status |-> "approved"]),
      BalanceRow(2, [tenant_id |-> "T2", employee_id |-> "e3", from_date |-> 1,
                     to_date |-> 15, status |-> "pending"])>> }

InitTools ==
  /\ leaves \in SnapshotLeaves
  /\ staged = << >>
  /\ now = Len(leaves)
  /\ call = NoCall
  /\ result = Dict([status |-> "none"])
  /\ IngestIdle
  /\ ServicesIdle
  /\ managerOf = ReportingLines
  /\ approving = [c \in Calls |-> IdleApproval]

NextTools ==
  \/ \E t \in ToolTenantIds, e \in ToolEmployeeIds, f \in {"none", "query"} :
       \/ get_leave_balance(t, e, f)
       \/ get_employee_profile(t, e, f)
       \/ get_org_chart(t, e, f)
       \/ \E n \in {1, 5} : get_my_leave_requests(t, e, n, f)
  \/ \E t \in ToolTenantIds, q \in {NULL, "", "ali", "zed"}, d \in {NULL, "eng"},
        f \in {"none", "query"} :
       list_employees(t, q, d, f)
  \/ \E t \in ToolTenantIds, q \in {"", "ali", "zed"}, f \in {"none", "query"} :
       find_employee(t, q, f)
  \/ \E t \in ToolTenantIds, d \in DocumentUUIDs \cup {BadUUID}, f \in {"none", "query"} :
       summarize_policy(t, d, f)
  \/ \E t \in ToolTenantIds, e \in {"e1", BadUUID}, d1 \in ToolDates, d2 \in ToolDates :
       /\ BadUUID \in {t, e} \/ "yesterday" \in {d1, d2}
       /\ create_leave_request(t, e, d1, d2, "none")
  \/ \E t \in ToolTenantIds, a \in {"e2", BadUUID}, l \in {"L1", BadUUID},
        f \in {"none", "query"} :
       /\ BadUUID \in {t, a, l} \/ f = "query"
       /\ approve_leave(t, a, l, f)

SpecTools == InitTools /\ [][NextTools]_vars

\* SpecIngest: runs of ingest_document_task on D1 (pending, with 0 to MaxChunks
\* chunks) and on D9 (no such document), one run at a time.
ToolsIdle ==
  /\ managerOf = ReportingLines
  /\ approving = [c \in Calls |-> IdleApproval]
  /\ leaves = << >>
  /\ staged = << >>
  /\ now = 0
  /\ call = NoCall
  /\ result = Dict([status |-> "none"])

InitIngest ==
  /\ ToolsIdle
  /\ docStatus = "pending"
  /\ \E n \in 0..MaxChunks : chunkEmb = [i \in 1..n |-> NULL]
  /\ vsWrites = << >>
  /\ embedCalls = 0
  /\ sessions = [opened |-> 0, closed |-> 0]
  /\ runs = 0
  /\ task = [r \in Runs |-> IdleTask]
  /\ ServicesIdle

NextIngest ==
  \/ \E d \in DocumentUUIDs : Begin(1, d)
  \/ \E f \in {"none", "raise"} : Lookup(1, f)
  \/ \E f \in {"none", "raise"} : QueryChunks(1, f)
  \/ \E ok \in BOOLEAN : Embed(1, ok)
  \/ \E f \in {"none", "raise"} : Ingest(1, f)
  \/ \E f \in {"none", "raise"} : Commit(1, f)
  \/ \E o \in {"raise", "status", "pending"} : Except(1, o)

SpecIngest == InitIngest /\ [][NextIngest]_vars

\* SpecChat: one call of chat_completion, the response requesting up to MaxCalls
\* tool calls; the id of a tool call is its position in the response.
RECURSIVE ToolCallSeqs(_)
ToolCallSeqs(n) ==
  IF n = 0 THEN {<< >>}
  ELSE LET shorter == ToolCallSeqs(n - 1)
       IN shorter \cup
            {Append(q, [id |-> Len(q) + 1, name |-> nm, arguments |-> a]) :
               q \in {x \in shorter : Len(x) = n - 1}, nm \in RequestedNames,
               a \in ArgumentTexts}

InitChat ==
  /\ ToolsIdle
  /\ IngestIdle
  /\ ServicesIdle

NextChat ==
  \/ \E u \in BOOLEAN : chat_completion(u)
  \/ \E f \in {"none", "raise"}, q \in ToolCallSeqs(MaxCalls) : Create(f, q)
  \/ Dispatch
  \/ \E ok \in BOOLEAN : Finish(ok)
  \/ ChatReturn

SpecChat == InitChat /\ [][NextChat]_vars

\* SpecPayroll: estimate_tax_deduction on amounts at and around the thresholds, and
\* download_payslip on the months around the turn of the year.
GrossAmounts == {-10, 0, 10, 49990, 50000, 50010, 60000, 99990, 100000, 100010, 150000}
Months == {0, 1, 11, 12, 13}
Years == {2024, 2025}

InitPayroll ==
  /\ ToolsIdle
  /\ IngestIdle
  /\ ServicesIdle

NextPayroll ==
  \/ \E t \in ToolTenantIds, e \in ToolEmployeeIds, g \in GrossAmounts :
       estimate_tax_deduction(t, e, g)
  \/ \E t \in ToolTenantIds, e \in ToolEmployeeIds, m \in Months, y \in Years,
        f \in {"none", "query"} :
       download_payslip(t, e, m, y, f)

SpecPayroll == InitPayroll /\ [][NextPayroll]_vars

\* SpecPII: calls of the detector, with the library present or absent and the flag
\* on or off.
InitPII ==
  /\ ToolsIdle
  /\ IngestIdle
  /\ chat = IdleChat
  /\ \E a, f \in BOOLEAN : pii = [IdlePII EXCEPT !.available = a, !.flag = f]

NextPII ==
  \/ \E text \in Texts, f \in {"none", "analyzer_init", "analyze"} : detect_pii(text, f)
  \/ \E text \in Texts, f \in {"none", "analyzer_init", "analyze"} : has_pii(text, f)
  \/ \E text \in Texts,
        f \in {"none", "analyzer_init", "anonymizer_init", "analyze", "anonymize"} :
       redact_pii(text, "[REDACTED]", f)

SpecPII == InitPII /\ [][NextPII]_vars

\* SpecOrg: get_org_chart over every manager graph on the four employees that the
\* foreign key of reporting_manager_id allows: each employee reports to nobody or
\* to some employee, itself included.
InitOrg ==
  /\ leaves = << >>
  /\ staged = << >>
  /\ now = 0
  /\ call = NoCall
  /\ result = Dict([status |-> "none"])
  /\ IngestIdle
  /\ ServicesIdle
  /\ managerOf \in [DOMAIN Employee -> DOMAIN Employee \cup {NULL}]
  /\ approving = [c \in Calls |-> IdleApproval]

NextOrg ==
  \E t \in TenantUUIDs, e \in EmployeeUUIDs : get_org_chart(t, e, "none")

SpecOrg == InitOrg /\ [][NextOrg]_vars

\* SpecApprove2: two approve_leave calls in flight on a store with one pending
\* request.
InitApprove2 ==
  /\ leaves = <<NewLeaveRequest("L1", "T1", "e1", 1, 3, 1)>>
  /\ staged = << >>
  /\ now = 1
  /\ call = NoCall
  /\ result = Dict([status |-> "none"])
  /\ IngestIdle
  /\ ServicesIdle
  /\ managerOf = ReportingLines
  /\ approving = [c \in Calls |-> IdleApproval]

NextApprove2 ==
  \/ \E c \in Calls, a \in {"e1", "e2", "e3"}, l \in {"L1", "L2"} : ApproveRead(c, "T1", a, l)
  \/ \E c \in Calls, f \in {"none", "commit"} : ApproveWrite(c, f)

SpecApprove2 == InitApprove2 /\ [][NextApprove2]_vars

\* SpecIngest2: two runs of ingest_document_task on D1 in flight, scheduled
\* independently by the task queue, their steps interleaved. D1 is pending and has
\* two chunks; the queries answer, the vector-store call and the commits may raise.
InitIngest2 ==
  /\ ToolsIdle
  /\ docStatus = "pending"
  /\ chunkEmb = <<NULL, NULL>>
  /\ vsWrites = << >>
  /\ embedCalls = 0
  /\ sessions = [opened |-> 0, closed |-> 0]
  /\ runs = 0
  /\ task = [r \in Runs |-> IdleTask]
  /\ ServicesIdle

NextIngest2 ==
  \/ \E r \in Runs : Begin(r, "D1")
  \/ \E r \in Runs : Lookup(r, "none")
  \/ \E r \in Runs : QueryChunks(r, "none")
  \/ \E r \in Runs, ok \in BOOLEAN : Embed(r, ok)
  \/ \E r \in Runs, f \in {"none", "raise"} : Ingest(r, f)
  \/ \E r \in Runs, f \in {"none", "raise"} : Commit(r, f)
  \/ \E r \in Runs, o \in {"raise", "status", "pending"} : Except(r, o)

SpecIngest2 == InitIngest2 /\ [][NextIngest2]_vars

\* SpecDates: leave requests of e1 created with any two parseable dates, in either
\* order, approved by e2, and the balance of e1 read.
ParseableDates == {"2024-01-01", "2024-01-15"}

InitDates ==
  /\ ToolsIdle
  /\ IngestIdle
  /\ ServicesIdle

NextDates ==
  \/ \E from_date, to_date \in ParseableDates :
       create_leave_request("T1", "e1", from_date, to_date, "none")
  \/ \E l \in LeaveIds : approve_leave("T1", "e2", l, "none")
  \/ get_leave_balance("T1", "e1", "none")

SpecDates == InitDates /\ [][NextDates]_vars

\* ------------------------------------------------------------------ claims

IsError(r) == r.kind = "dict" /\ "error" \in DOMAIN r.value
ApprovedResult(leave_id) == Dict([status |-> "approved", leave_id |-> leave_id])
LeaveRow(tbl, leave_uuid, tenant_uuid) ==
  {i \in 1..Len(tbl) : tbl[i].id = leave_uuid /\ tbl[i].tenant_id = tenant_uuid}

\* The handlers of the model that take (tenant_id, employee_id).
EmployeeHandlers ==
  {"get_leave_balance", "get_my_leave_requests", "get_employee_profile", "get_org_chart"}

\* C1 (as claimed): a handler called with (T, E), E an employee of another tenant,
\* returns a mapping with an `error` key.
C1_TenantIsolation ==
  ( /\ call.op \in EmployeeHandlers
    /\ call.args.tenant_id \in TenantUUIDs
    /\ call.args.employee_id \in DOMAIN Employee
    /\ Employee[call.args.employee_id].tenant_id # call.args.tenant_id )
  => IsError(result)

\* The calls of the model that fail inside the handler: a malformed identifier or
\* date, or a query or commit the store fails.
InternalFailure ==
  \/ call.fault # "none"
  \/ BadUUID \in {call.args[k] : k \in DOMAIN call.args \ {"n"}}
  \/ call.op = "create_leave_request"
       /\ << >> \in {fromisoformat(call.args.from_date), fromisoformat(call.args.to_date)}

\* C3 (as claimed): a handler that fails inside neither raises nor returns anything
\* but a mapping with an `error` key.
C3_NeverRaises ==
  (call.op # "none" /\ InternalFailure) => IsError(result)

\* C2 (as claimed): no handler authorizes a mutation by, or returns, a row of another
\* tenant: an approve_leave that succeeds was made by an approver of the caller's
\* tenant, and get_org_chart lists only a manager and direct reports of that tenant.
C2_TenantScoped ==
  /\ (call.op = "approve_leave" /\ ~IsError(result))
       => \E e \in EmployeeRows : e.id = call.args.approver_id
                                  /\ e.tenant_id = call.args.tenant_id
  /\ (call.op = "get_org_chart" /\ ~IsError(result))
       => \A info \in result.value.direct_reports \cup
                      {result.value.manager[i] : i \in DOMAIN result.value.manager} :
            Employee[info.id].tenant_id = call.args.tenant_id

\* C4: approve_leave on a pending request makes it approved and stamps approver and
\* time; the next approve_leave on that request by an authorized approver returns
\* "Leave request is already approved" and leaves the table as the first call wrote it.
C4_ApproveTwice ==
  [][ /\ (call'.op = "approve_leave" /\ ~IsError(result'))
          => /\ result' = ApprovedResult(call'.args.leave_id)
             /\ \E i \in LeaveRow(leaves, call'.args.leave_id, call'.args.tenant_id) :
                  /\ leaves[i].status = "pending"
                  /\ leaves' = [leaves EXCEPT ![i] =
                                  [leaves[i] EXCEPT !.status = "approved",
                                                    !.approver_id = call'.args.approver_id,
                                                    !.approved_at = <<now'>>]]
                  /\ now' > now
      /\ ( /\ call.op = "approve_leave" /\ ~IsError(result)
           /\ call'.op = "approve_leave"
           /\ call'.args.leave_id = call.args.leave_id
           /\ call'.args.tenant_id = call.args.tenant_id
           /\ MayApprove(call'.args.approver_id) )
          => /\ result' = ErrorDict("Leave request is already approved")
             /\ leaves' = leaves
             /\ staged' = staged
    ]_vars

\* The second of two approve_leave calls on one request, by another approver, has
\* returned the error, and the row still names the first approver.
C4_Witness ==
  /\ call.op = "approve_leave"
  /\ result = ErrorDict("Leave request is already approved")
  /\ MayApprove(call.args.approver_id)
  /\ \E i \in LeaveRow(leaves, call.args.leave_id, call.args.tenant_id) :
       /\ leaves[i].status = "approved"
       /\ leaves[i].approver_id # call.args.approver_id
       /\ leaves[i].approved_at = <<now>>

\* C5: approve_leave by an approver with no employee row or with a role outside
\* {manager, hr, ceo} returns the authorization error and changes nothing, whatever
\* the request is: pending, approved, rejected or not there.
C5_Unauthorized ==
  [][ (call'.op = "approve_leave" /\ ~MayApprove(call'.args.approver_id))
        => /\ result' = ErrorDict("Only managers, HR, or CEO can approve leaves")
           /\ leaves' = leaves
           /\ staged' = staged
    ]_vars

\* An unauthorized approver was refused on a request that is already approved, where
\* the status guard would have answered otherwise.
C5_Witness ==
  /\ call.op = "approve_leave"
  /\ result = ErrorDict(AuthError)
  /\ \E i \in LeaveRow(leaves, call.args.leave_id, call.args.tenant_id) :
       leaves[i].status = "approved"
  /\ \E j \in 1..Len(leaves) : leaves[j].status = "rejected"

Statuses == {"pending", "approved", "rejected"}

\* C6: every request's status is pending, approved or rejected; a request is created
\* pending; the only change of status a call makes is pending to approved; a request
\* that is not pending never changes; and a request that becomes approved carries the
\* id of the caller, an employee whose role is manager, hr or ceo.
C6_Lifecycle ==
  [][ /\ \A i \in 1..Len(leaves') : leaves'[i].status \in Statuses
      /\ Len(leaves') >= Len(leaves)
      /\ \A i \in 1..Len(leaves) :
           /\ leaves'[i].id = leaves[i].id
           /\ leaves[i].status # "pending" => leaves'[i] = leaves[i]
           /\ leaves'[i].status # leaves[i].status
                => /\ leaves[i].status = "pending"
                   /\ leaves'[i].status = "approved"
                   /\ call'.op = "approve_leave"
                   /\ leaves'[i].approver_id = call'.args.approver_id
                   /\ \E e \in EmployeeRows : /\ e.id = leaves'[i].approver_id
                                              /\ e.role \in {"manager", "hr", "ceo"}
      /\ \A i \in (Len(leaves) + 1)..Len(leaves') :
           /\ leaves'[i].status = "pending"
           /\ call'.op = "create_leave_request"
    ]_vars

\* One request has been approved by e3, and an authorized approver has just been
\* refused on the rejected one, which stays rejected.
C6_Witness ==
  /\ call.op = "approve_leave"
  /\ result = ErrorDict("Leave request is already rejected")
  /\ \E i \in 1..Len(leaves) : leaves[i].status = "approved" /\ leaves[i].approver_id = "e3"
  /\ \E i \in 1..Len(leaves) : leaves[i].status = "rejected"

\* C7 (as claimed): a create_leave_request or approve_leave that returns an error
\* mapping leaves the committed table as it was and leaves nothing staged in the
\* session for a later commit.
C7_ErrorRollsBack ==
  [][ (call'.op \in {"create_leave_request", "approve_leave"} /\ IsError(result'))
        => leaves' = leaves /\ staged' = << >>
    ]_vars

RECURSIVE DaySpans(_, _, _, _)
\* The inclusive day-spans of the approved requests of employee e in tenant t among
\* the first n rows of the table, summed.
DaySpans(tbl, t, e, n) ==
  IF n = 0 THEN 0
  ELSE DaySpans(tbl, t, e, n - 1) +
       (IF tbl[n].tenant_id = t /\ tbl[n].employee_id = e /\ tbl[n].status = "approved"
          THEN tbl[n].to_date - tbl[n].from_date + 1 ELSE 0)

\* C8: get_leave_balance(T, E) returns entitlement 12, used = the sum of the
\* inclusive day-spans of E's approved requests in T, and remaining = max(0, 12 - used);
\* pending and rejected requests do not count, and the call fails only on a malformed
\* id. With no approved request remaining is 12, with one of three days it is 9.
C8_LeaveBalance ==
  call.op = "get_leave_balance" =>
    LET t == call.args.tenant_id
        e == call.args.employee_id
        used == DaySpans(leaves, t, e, Len(leaves))
        mine == {i \in 1..Len(leaves) : /\ leaves[i].tenant_id = t
                                         /\ leaves[i].employee_id = e
                                         /\ leaves[i].status = "approved"}
    IN IF BadUUID \in {t, e}
         THEN IsError(result)
         ELSE /\ result = Dict([employee_id |-> e, entitlement |-> 12, used |-> used,
                                remaining |-> IF used >= 12 THEN 0 ELSE 12 - used])
              /\ mine = {} => result.value.remaining = 12
              /\ (\E i \in mine : mine = {i} /\ leaves[i].to_date - leaves[i].from_date = 2)
                   => result.value.remaining = 9

\* The balance of an employee with two approved requests, of 3 and of 15 days, beside
\* which the clamp at zero shows: used is 18 and remaining 0.
C8_Witness ==
  /\ call.op = "get_leave_balance"
  /\ ~IsError(result)
  /\ result.value.used = 18
  /\ result.value.remaining = 0

\* The step in which run 1 of ingest_document_task returns or raises.
TaskEnds == task[1].pc # "done" /\ task'[1].pc = "done"

\* What the run found when it started.
Pre == task[1].pre[1]

\* C9: a run of ingest_document_task on a document that is already completed
\* makes no embedding call and no vector-store write, leaves the document's status
\* and every chunk's embedding_id as they were, and, the document lookup having
\* answered, returns {status: "completed", document_id}.
C9_CompletedNoOp ==
  [][(TaskEnds /\ task[1].document_id = "D1" /\ Pre.docStatus = "completed")
       => /\ embedCalls' = Pre.embedCalls
          /\ vsWrites' = Pre.vsWrites
          /\ docStatus' = "completed"
          /\ chunkEmb' = Pre.chunkEmb
          /\ (task[1].pc = "lookup"
                => task'[1].result = Dict([status |-> "completed", document_id |-> "D1"]))]_vars

\* A second run in a row has just short-circuited on the completed document,
\* which has chunks with and without an embedding_id.
C9_Witness ==
  /\ runs = 3
  /\ task[1].pc = "done"
  /\ task[1].pre # << >>
  /\ Pre.docStatus = "completed"
  /\ Len(Pre.vsWrites) = 1
  /\ task[1].result = Dict([status |-> "completed", document_id |-> "D1"])
  /\ \E i, j \in 1..Len(chunkEmb) : chunkEmb[i] = NULL /\ chunkEmb[j] # NULL

\* The chunk_index values whose embedding call answered in the run.
Embedded == {i \in 1..Len(task[1].embeddings) : task[1].embeddings[i] # << >>}

\* The i-th smallest member of a set of numbers.
Nth(S, i) == CHOOSE x \in S : Cardinality({y \in S : y < x}) = i - 1

\* C10: with N >= 1 chunks of a document that is not completed, k < N of whose
\* embedding calls fail, a run that the store and the vector store do not fail
\* makes all N embedding calls, hands the vector store exactly the N-k embedded
\* chunks in chunk_index order, each with the embedding of its own content
\* (redacted where there is a redacted variant), sets embedding_id on exactly
\* those chunks, marks the document completed and returns chunks_ingested = N-k.
C10_PartialFailure ==
  [][(TaskEnds /\ task[1].pc = "commit" /\ Embedded # {})
       => LET N == Len(Pre.chunkEmb)
              k == N - Cardinality(Embedded)
              handed == vsWrites'[Len(vsWrites')]
          IN /\ Pre.docStatus # "completed"
             /\ N >= 1 /\ k >= 0 /\ k < N
             /\ embedCalls' = Pre.embedCalls + N
             /\ vsWrites' = Append(Pre.vsWrites, handed)
             /\ handed.tenant_id = "T1"
             /\ handed.chunks = [j \in 1..(N - k) |-> ChunkUUIDs[Nth(Embedded, j)]]
             /\ handed.embeddings =
                  [j \in 1..(N - k) |->
                     <<"embedding",
                       IF Nth(Embedded, j) % 2 = 0 THEN <<"redacted", Nth(Embedded, j)>>
                                                   ELSE <<"content", Nth(Embedded, j)>>>>]
             /\ chunkEmb' = [i \in 1..N |-> IF i \in Embedded THEN ChunkUUIDs[i]
                                                              ELSE Pre.chunkEmb[i]]
             /\ docStatus' = "completed"
             /\ task'[1].result = Dict([status |-> "completed", document_id |-> "D1",
                                        chunks_ingested |-> N - k])]_vars

\* Three chunks, the embedding of the second failed, the third was still embedded:
\* two chunks ingested.
C10_Witness ==
  /\ task[1].pc = "done"
  /\ Len(task[1].embeddings) = 3
  /\ Embedded = {1, 3}
  /\ docStatus = "completed"
  /\ chunkEmb = <<"c1", NULL, "c3">>
  /\ Len(vsWrites) = 1
  /\ vsWrites[1].chunks = <<"c1", "c3">>
  /\ task[1].result = Dict([status |-> "completed", document_id |-> "D1", chunks_ingested |-> 2])

\* A result of the task that reports an error.
ErrorResult(r) == r.kind = "dict" /\ "status" \in DOMAIN r.value /\ r.value.status = "error"

\* The run was on the existing document, not completed, with nothing to ingest:
\* no chunks, or every one of its embedding calls failed.
NothingToIngest ==
  /\ task[1].document_id = "D1"
  /\ Pre.docStatus # "completed"
  /\ \/ Len(Pre.chunkEmb) = 0
     \/ Len(task[1].embeddings) = Len(Pre.chunkEmb) /\ Embedded = {}

\* C11: a run on an existing, not completed document with no chunk to ingest makes
\* no vector-store write and sets no embedding_id, and, the store not failing,
\* commits ingestion_status = failed and returns an error result; a run on an id
\* that matches no document writes nothing and, the lookup answering, returns the
\* error result "Document not found".
C11_NothingToIngest ==
  [][/\ (TaskEnds /\ NothingToIngest)
          => /\ vsWrites' = Pre.vsWrites
             /\ chunkEmb' = Pre.chunkEmb
             /\ (task[1].pc = "commit"
                   => docStatus' = "failed" /\ ErrorResult(task'[1].result))
     /\ (TaskEnds /\ task[1].document_id = "D9")
          => /\ docStatus' = Pre.docStatus
             /\ chunkEmb' = Pre.chunkEmb
             /\ vsWrites' = Pre.vsWrites
             /\ (task[1].pc = "lookup"
                   => task'[1].result = Dict([status |-> "error",
                                              message |-> "Document not found"]))]_vars

\* Three chunks, every embedding call failed: the document is failed, nothing was
\* written to the vector store, no chunk has an embedding_id.
C11_Witness ==
  /\ task[1].pc = "done"
  /\ task[1].document_id = "D1"
  /\ Len(task[1].embeddings) = 3
  /\ Embedded = {}
  /\ embedCalls = 3
  /\ docStatus = "failed"
  /\ vsWrites = << >>
  /\ chunkEmb = <<NULL, NULL, NULL>>
  /\ task[1].result = Dict([status |-> "error", message |-> "Embedding generation failed"])

\* C12 (as claimed): whatever stage raises, the task does not raise but returns an
\* error result, and a run that had resolved its document leaves it failed.
C12_ExceptionHandled ==
  [][(TaskEnds /\ task[1].pc = "except")
       => /\ ErrorResult(task'[1].result)
          /\ (task[1].doc # "unbound" => docStatus' = "failed")]_vars

\* The chunks handed to the vector store by the calls that returned.
HandedOver == UNION {{w.chunks[j] : j \in 1..Len(w.chunks)} : w \in {vsWrites[n] : n \in 1..Len(vsWrites)}}

\* C13: a committed embedding_id is the chunk's own id and the chunk was handed to
\* the vector store by a call that returned; a run sets no embedding_id on a chunk
\* whose embedding failed, and none at all when its vector-store call did not
\* return.
C13_EmbeddingId ==
  /\ [](\A i \in 1..Len(chunkEmb) :
          chunkEmb[i] # NULL => chunkEmb[i] = ChunkUUIDs[i] /\ ChunkUUIDs[i] \in HandedOver)
  /\ [][TaskEnds
          => /\ \A i \in 1..Len(chunkEmb) :
                  (i \notin Embedded \/ vsWrites' = Pre.vsWrites)
                    => chunkEmb'[i] = Pre.chunkEmb[i]
             /\ \A i \in 1..Len(chunkEmb) :
                  chunkEmb'[i] # Pre.chunkEmb[i] => chunkEmb'[i] = ChunkUUIDs[i]]_vars

\* A second run on a failed document with chunk 1 marked by the first: its
\* embedding of chunk 1 failed, chunk 2 was handed over and marked.
C13_Witness ==
  /\ task[1].pc = "done"
  /\ runs = 2
  /\ Len(vsWrites) = 2
  /\ task[1].pre # << >>
  /\ Pre.chunkEmb = <<"c1", NULL>>
  /\ Embedded = {2}
  /\ chunkEmb = <<"c1", "c2">>

\* C20: a run acquires one session when it starts and closes it in the step that
\* ends it, whichever path ends it; no other step opens or closes a session.
C20_SessionOnce ==
  /\ [](sessions.opened = runs
        /\ sessions.closed = sessions.opened - (IF task[1].pc \in {"idle", "done"} THEN 0 ELSE 1))
  /\ [][/\ (task[1].pc \in {"idle", "done"} /\ task'[1].pc \notin {"idle", "done"})
             => sessions' = [sessions EXCEPT !.opened = @ + 1]
        /\ TaskEnds => sessions' = [sessions EXCEPT !.closed = @ + 1]
        /\ (task[1].pc \notin {"idle", "done"} /\ ~TaskEnds) => sessions' = sessions]_vars

\* The commit of the error handler itself raised and the task raised: the one
\* session it opened is closed.
C20_Witness ==
  /\ task[1].pc = "done"
  /\ task[1].result = Raise(StoreError)
  /\ task[1].doc # "unbound"
  /\ runs = 1
  /\ sessions = [opened |-> 1, closed |-> 1]

\* The positions, in the response, of the requested calls that name a registered tool.
RegisteredCalls ==
  {k \in 1..Len(chat.requested) : chat.requested[k].name \in RegisteredTools}

\* The requested calls that failed: the arguments do not decode, or the handler
\* raised.
FailedCalls ==
  {k \in RegisteredCalls :
     \/ json_loads(chat.requested[k].arguments) = << >>
     \/ \E n \in 1..Len(chat.log) : chat.log[n] = <<"finish", k, FALSE>>}

\* C14 (as claimed): once the chat endpoint has answered, chat_completion returns a
\* result whatever happens to one tool call: every requested call of a registered
\* tool has its entry in result.tool_calls, and the entry of a call that failed,
\* in decoding its arguments or in its handler, is {id, name, error}.
C14_PerCallCapture ==
  (chat.pc = "done" /\ chat.created)
    => /\ chat.outcome = "return"
       /\ \A k \in RegisteredCalls :
            \E n \in 1..Len(chat.tool_calls) :
              /\ chat.tool_calls[n].id = k
              /\ chat.tool_calls[n].name = chat.requested[k].name
              /\ k \in FailedCalls <=> DOMAIN chat.tool_calls[n] = {"id", "name", "error"}

\* C15: handlers run one at a time and in the order of the response: a handler that
\* has started finishes before anything else starts, and the next to start is a
\* later call of the response; when chat_completion returns, result.tool_calls has
\* exactly one entry for each requested call of a registered tool, in the order of
\* the response, and nothing for a call of an unregistered tool.
C15_InOrder ==
  /\ \A n \in 1..Len(chat.log) :
       IF n % 2 = 1
         THEN /\ chat.log[n][1] = "start"
              /\ n > 1 => chat.log[n][2] > chat.log[n - 1][2]
         ELSE /\ chat.log[n][1] = "finish"
              /\ chat.log[n][2] = chat.log[n - 1][2]
  /\ chat.outcome = "return"
       => /\ Len(chat.log) = 2 * Cardinality(RegisteredCalls)
          /\ Len(chat.tool_calls) = Cardinality(RegisteredCalls)
          /\ \A j \in 1..Len(chat.tool_calls) :
               /\ chat.tool_calls[j].id = Nth(RegisteredCalls, j)
               /\ chat.tool_calls[j].name = chat.requested[Nth(RegisteredCalls, j)].name
               /\ chat.log[2 * j][2] = Nth(RegisteredCalls, j)

\* chat_completion has returned: the response asked for a registered tool, an
\* unregistered one and another registered one; the first handler raised, the
\* last returned; the result has the two entries, in that order.
C15_Witness ==
  /\ chat.outcome = "return"
  /\ Len(chat.requested) = 3
  /\ RegisteredCalls = {1, 3}
  /\ chat.requested[1].name # chat.requested[3].name
  /\ Len(chat.tool_calls) = 2
  /\ DOMAIN chat.tool_calls[1] = {"id", "name", "error"}
  /\ chat.tool_calls[2].id = 3
  /\ "result" \in DOMAIN chat.tool_calls[2]
  /\ chat.log = <<<<"start", 1>>, <<"finish", 1, FALSE>>, <<"start", 3>>, <<"finish", 3, TRUE>>>>

EndingIn(t, e, month, year) ==
  {k \in PaystubUUIDs :
     /\ Paystub[k].tenant_id = t /\ Paystub[k].employee_id = e
     /\ \E day \in 1..31 : Paystub[k].pay_period_end = (year * 12 + month - 1) * 31 + day - 1}

\* C17: with well-formed identifiers and the store answering, download_payslip
\* returns the download_url of a paystub of the employee in the tenant that ends in
\* the month asked for (from its first day up to, not including, the first day of
\* the next month, January of the next year after December), and an error mapping
\* when there is none or when month is not in 1..12.
C17_PayslipPeriod ==
  (call.op = "download_payslip" /\ call.fault = "none"
     /\ BadUUID \notin {call.args.tenant_id, call.args.employee_id})
    => LET a == call.args
           ending == IF a.month \in 1..12
                       THEN EndingIn(a.tenant_id, a.employee_id, a.month, a.year)
                       ELSE {}
       IN /\ ending = {} => IsError(result)
          /\ ending # {}
               => /\ ~IsError(result)
                  /\ \E k \in ending : result.value.download_url = <<"/api/payroll/download/", k>>
          /\ (a.month = 12 /\ a.year = 2024 /\ ~IsError(result))
               => result.value.download_url[2] \notin {"P2", "P5"}

\* December 2024 was asked for an employee whose one paystub ends on 2025-01-01:
\* no payslip.
C17_Witness ==
  /\ call.op = "download_payslip"
  /\ call.fault = "none"
  /\ call.args = [tenant_id |-> "T1", employee_id |-> "e2", month |-> 12, year |-> 2024]
  /\ result = ErrorDict(NoPayslipError(12, 2024))

\* C18: the redactor never raises, and with the flag off, the library absent, or
\* a failure of an engine's construction, of the analysis or of the anonymization in
\* the call, redact_pii returns its text unchanged, detect_pii the empty list and
\* has_pii false.
C18_PassThrough ==
  call.op \in {"detect_pii", "has_pii", "redact_pii"}
    => /\ result.kind # "raise"
       /\ (~pii.flag \/ ~pii.available \/ call.fault # "none")
            => CASE call.op = "redact_pii" -> result = [kind |-> "str", value |-> call.args.text]
                 [] call.op = "detect_pii" -> result = List(<< >>)
                 [] OTHER -> result = [kind |-> "bool", value |-> FALSE]

\* The anonymization of a text with two findings failed, library present and flag
\* on: the text came back as it was.
C18_Witness ==
  /\ call.op = "redact_pii"
  /\ call.fault = "anonymize"
  /\ pii = [available |-> TRUE, flag |-> TRUE, analyzer |-> TRUE, anonymizer |-> TRUE]
  /\ call.args.text = <<"a@hr.io", "or", "555-0100">>
  /\ result.value = call.args.text

\* C19: for an employee E of tenant T, get_org_chart(T, E) returns as manager the
\* employee E.reporting_manager_id refers to, or null when it is unset, as
\* direct_reports the active employees whose reporting_manager_id is E, and their
\* number as total_reports: one hop up and one hop down, whatever the manager graph
\* is, cycles and self-managed employees included.
C19_OneHop ==
  (call.op = "get_org_chart" /\ call.fault = "none"
     /\ call.args.employee_id \in DOMAIN Employee
     /\ Employee[call.args.employee_id].tenant_id = call.args.tenant_id)
    => LET E == call.args.employee_id
           info(k) == [id |-> k, name |-> <<Employee[k].first_name, Employee[k].last_name>>,
                       role |-> Employee[k].role]
           reports == {k \in DOMAIN Employee : managerOf[k] = E /\ Employee[k].is_active}
       IN /\ result.kind = "dict"
          /\ DOMAIN result.value = {"employee", "manager", "direct_reports", "total_reports"}
          /\ result.value.employee = <<Employee[E].first_name, Employee[E].last_name>>
          /\ result.value.manager =
               (IF managerOf[E] = NULL THEN << >> ELSE <<info(managerOf[E])>>)
          /\ result.value.direct_reports = {info(k) : k \in reports}
          /\ result.value.total_reports = Cardinality(reports)

\* e2 is its own manager, e1 and e3 report to each other, e4 (inactive) reports to
\* e2: the chart of e2 has e2 as manager and as only direct report.
C19_Witness ==
  /\ call.op = "get_org_chart"
  /\ call.args = [tenant_id |-> "T1", employee_id |-> "e2"]
  /\ managerOf = [e1 |-> "e3", e2 |-> "e2", e3 |-> "e1", e4 |-> "e2"]
  /\ result.value.manager = <<[id |-> "e2", name |-> <<"bob", "ali">>, role |-> "manager"]>>
  /\ result.value.total_reports = 1

\* The calls that returned {status: "approved"}.
ReturnedApproved == {c \in Calls : approving[c].result = ApprovedDict(approving[c].leave_id)}

\* C21 (as claimed): of the approve_leave calls that ran on the same request, at
\* most one returns status approved, and the stored approver_id and approved_at are
\* those of the call that did.
C21_OneApproval ==
  \A c \in ReturnedApproved :
    /\ \A d \in ReturnedApproved : approving[d].leave_id = approving[c].leave_id => d = c
    /\ \E i \in 1..Len(leaves) :
         /\ leaves[i].id = approving[c].leave_id
         /\ leaves[i].approver_id = approving[c].approver_id
         /\ leaves[i].approved_at = approving[c].approved_at

\* How many times chunk id ch has been handed to the vector store.
TimesHanded(ch) ==
  Cardinality({<<n, j>> \in (1..Len(vsWrites)) \X (1..MaxChunks + 1) :
                 j <= Len(vsWrites[n].chunks) /\ vsWrites[n].chunks[j] = ch})

\* C22 (as claimed): however the runs of ingest_document_task on the document
\* interleave, each of its chunks is handed to the vector store at most once.
C22_HandedOnce ==
  \A i \in 1..Len(chunkEmb) : TimesHanded(ChunkUUIDs[i]) <= 1

\* C23 (as claimed): a committed ingestion_status of completed is never replaced
\* by another status, by any step of any run.
C23_CompletedStays ==
  [][docStatus = "completed" => docStatus' = "completed"]_vars

\* C24 (as claimed): after any successful create_leave_request and approve_leave
\* calls, whatever the order of the two dates of a request, get_leave_balance
\* reports used >= 0 and 0 <= remaining <= 12.
C24_BalanceBounds ==
  (call.op = "get_leave_balance" /\ ~IsError(result))
    => /\ result.value.used >= 0
       /\ result.value.remaining >= 0
       /\ result.value.remaining <= 12

====
